---- MODULE Spec2Model ----
(***************************************************************************)
(* NowVibin service cloner (backend/tools/clone/nv_service_clone.py).      *)
(*                                                                         *)
(* A text (a path, a slug, a decoded file content) is a sequence of        *)
(* one-character strings.  A payload (bytes) is such a sequence too, in    *)
(* which the element BadByte stands for a byte that is not valid UTF-8.    *)
(***************************************************************************)
EXTENDS Integers, Sequences, FiniteSets, TLC

VARIABLES
    slug,        \* args.slug
    dry_run,     \* args.dry_run
    entries,     \* zin.infolist(): the input archive, a sequence of [name, data]
    pc,          \* position of main(): start, open, loop, dto, handler, exited
    idx,         \* index of the next entry of the `for info in entries` loop
    dto_idx,     \* index of the next template of the `for src in dto_inzip` loop
    zin,         \* input archive handle: none, open, closed
    zout,        \* output archive handle: none, open, closed
    out,         \* records written with zout.writestr, in order
    files, changed, skipped,   \* counters of main()
    dto_inzip,   \* detect_dto_templates(entries)
    last,        \* locals of the last processed entry or cloned template
    changedSrc,  \* input names whose processing incremented `changed`
    exit_code,   \* process exit status, -1 while running
    ctx,         \* engine runs: which entry point is applied (path, content)
    buf,         \* engine runs: the original input text
    res,         \* engine runs: the current text
    prev,        \* engine runs: the text before the last application
    pass,        \* engine runs: number of applications so far
    cpc,         \* casing runs: which derived forms have been computed
    pascal, camel, upperForm, camelOfPascal   \* casing runs: derived forms

vars == <<slug, dry_run, entries, pc, idx, dto_idx, zin, zout, out, files, changed,
          skipped, dto_inzip, last, changedSrc, exit_code, ctx, buf, res, prev, pass,
          cpc, pascal, camel, upperForm, camelOfPascal>>

mainVars == <<entries, pc, idx, dto_idx, zin, zout, out, files, changed,
              skipped, dto_inzip, last, changedSrc, exit_code>>
engineVars == <<ctx, buf, res, prev, pass>>
casingVars == <<cpc, pascal, camel, upperForm, camelOfPascal>>

----------------------------------------------------------------------------
(* Characters and Python's str primitives                                  *)

LowerLetters == <<"a","b","c","d","e","f","g","h","i","j","k","l","m","n","o","p","q","r","s","t","u","v","w","x","y","z">>
UpperLetters == <<"A","B","C","D","E","F","G","H","I","J","K","L","M","N","O","P","Q","R","S","T","U","V","W","X","Y","Z">>
Digits == {"0","1","2","3","4","5","6","7","8","9"}
LowerSet == {LowerLetters[i] : i \in 1..Len(LowerLetters)}
UpperSet == {UpperLetters[i] : i \in 1..Len(UpperLetters)}

\* the backquote character, which a TLA+ string cannot hold
Backquote == "BACKQUOTE"

\* a byte sequence containing it raises UnicodeDecodeError in data.decode("utf-8")
BadByte == "0xFF"

\* [A-Za-z0-9_], and \w on ASCII text
IsWordChar(c) == c \in LowerSet \cup UpperSet \cup Digits \cup {"_"}

\* str.upper() / str.lower() on one ASCII character
upper(c) ==
    IF c \in LowerSet
    THEN UpperLetters[CHOOSE i \in 1..Len(LowerLetters) : LowerLetters[i] = c]
    ELSE c

lower(c) ==
    IF c \in UpperSet
    THEN LowerLetters[CHOOSE i \in 1..Len(UpperLetters) : UpperLetters[i] = c]
    ELSE c

str_upper(t) == [i \in 1..Len(t) |-> upper(t[i])]
str_lower(t) == [i \in 1..Len(t) |-> lower(t[i])]

\* the literal pat occurs in t at position i
MatchAt(t, i, pat) ==
    /\ i + Len(pat) - 1 <= Len(t)
    /\ \A k \in 1..Len(pat) : t[i + k - 1] = pat[k]

\* str.replace(pat, rep): leftmost, non-overlapping occurrences of a non-empty pat;
\* the replacement text is not scanned again
RECURSIVE ReplaceFrom(_, _, _, _)
ReplaceFrom(t, i, pat, rep) ==
    IF i > Len(t) THEN <<>>
    ELSE IF MatchAt(t, i, pat) THEN rep \o ReplaceFrom(t, i + Len(pat), pat, rep)
    ELSE <<t[i]>> \o ReplaceFrom(t, i + 1, pat, rep)

str_replace(t, pat, rep) == ReplaceFrom(t, 1, pat, rep)

\* one regex match of (lookbehind) literal (lookahead) at position i of t.
\*   lb = "notword" : (?<![A-Za-z0-9_])        lb = "any" : no lookbehind
\*   la = "notword" : (?![A-Za-z0-9_]), and \b after a literal ending in a word character
\*   la = "word"    : (?=[A-Za-z0-9_])          la = "any" : no lookahead
RegexAt(t, i, pat, lb, la) ==
    /\ MatchAt(t, i, pat)
    /\ lb = "notword" => (i = 1 \/ ~IsWordChar(t[i - 1]))
    /\ la = "notword" => (i + Len(pat) > Len(t) \/ ~IsWordChar(t[i + Len(pat)]))
    /\ la = "word" => (i + Len(pat) <= Len(t) /\ IsWordChar(t[i + Len(pat)]))

\* re.sub(pattern, rep, t): leftmost, non-overlapping matches, the lookarounds reading
\* the original text
RECURSIVE SubFrom(_, _, _, _, _, _)
SubFrom(t, i, pat, rep, lb, la) ==
    IF i > Len(t) THEN <<>>
    ELSE IF RegexAt(t, i, pat, lb, la)
         THEN rep \o SubFrom(t, i + Len(pat), pat, rep, lb, la)
         ELSE <<t[i]>> \o SubFrom(t, i + 1, pat, rep, lb, la)

re_sub(t, pat, rep, lb, la) == SubFrom(t, 1, pat, rep, lb, la)

\* t ends with suf / t contains pat
endswith(t, suf) == Len(suf) <= Len(t) /\ MatchAt(t, Len(t) - Len(suf) + 1, suf)
contains(t, pat) == \E i \in 1..Len(t) : MatchAt(t, i, pat)

\* str.strip("/")
RECURSIVE lstrip_slash(_)
lstrip_slash(t) == IF t # <<>> /\ Head(t) = "/" THEN lstrip_slash(Tail(t)) ELSE t
RECURSIVE rstrip_slash(_)
rstrip_slash(t) ==
    IF t # <<>> /\ t[Len(t)] = "/" THEN rstrip_slash(SubSeq(t, 1, Len(t) - 1)) ELSE t
strip_slash(t) == rstrip_slash(lstrip_slash(t))

\* name.replace("\\", "/")
normalize(t) == str_replace(t, <<"\\">>, <<"/">>)

----------------------------------------------------------------------------
(* Marker spellings                                                        *)

M_xxx == <<"x","x","x">>
M_Xxx == <<"X","x","x">>
M_XXX == <<"X","X","X">>
M_legacy == <<"t","_","e","n","t","i","t","y","_","c","r","u","d">>
S_Id == <<"I","d">>
Markers == {M_xxx, M_Xxx, M_XXX, M_legacy}

----------------------------------------------------------------------------
(* Classification                                                          *)

TEXT_EXT == {
    <<".","t","s">>, <<".","t","s","x">>, <<".","j","s">>, <<".","j","s","x">>, <<".","j","s","o","n">>, <<".","m","d">>, <<".","t","x","t">>, <<".","y","m","l">>, <<".","y","a","m","l">>,
    <<".","s","h">>, <<".","b","a","s","h">>, <<".","z","s","h">>, <<".","e","n","v">>, <<".","g","i","t","i","g","n","o","r","e">>, <<".","g","i","t","a","t","t","r","i","b","u","t","e","s">>,
    <<".","d","o","c","k","e","r","i","g","n","o","r","e">>, <<".","D","o","c","k","e","r","f","i","l","e">>, <<".","t","s","c","o","n","f","i","g">>, <<".","e","s","l","i","n","t","r","c">>, <<".","p","r","e","t","t","i","e","r","r","c">>,
    <<".","d","t","o">> }

BINARY_EXT == {
    <<".","p","n","g">>, <<".","j","p","g">>, <<".","j","p","e","g">>, <<".","g","i","f">>, <<".","w","e","b","p">>, <<".","i","c","o">>, <<".","p","d","f">>, <<".","z","i","p">>, <<".","t","a","r">>, <<".","g","z">>,
    <<".","t","g","z">>, <<".","7","z">>, <<".","m","p","3">>, <<".","m","p","4">>, <<".","m","o","v">>, <<".","w","a","v">>, <<".","o","g","g">>, <<".","w","o","f","f">>, <<".","w","o","f","f","2">>, <<".","t","t","f">>,
    <<".","e","o","t">> }

\* regex $ : the end of the text, or just before a final newline
AtDollar(p, j) == j = Len(p) + 1 \/ (j = Len(p) /\ p[j] = "\n")

\* (^|/)comp(/|$) matches at position i of p
ComponentAt(p, i, comp) ==
    /\ i = 1 \/ p[i - 1] = "/"
    /\ MatchAt(p, i, comp)
    /\ AtDollar(p, i + Len(comp)) \/ (i + Len(comp) <= Len(p) /\ p[i + Len(comp)] = "/")

\* (^|/)comp$ matches at position i of p
LastComponentAt(p, i, comp) ==
    /\ i = 1 \/ p[i - 1] = "/"
    /\ MatchAt(p, i, comp)
    /\ AtDollar(p, i + Len(comp))

EXCLUDE_DIRS == {<<".","g","i","t">>, <<"n","o","d","e","_","m","o","d","u","l","e","s">>, <<"d","i","s","t">>}
EXCLUDE_FILES == {<<".","D","S","_","S","t","o","r","e">>, <<"p","a","c","k","a","g","e","-","l","o","c","k",".","j","s","o","n">>, <<"p","n","p","m","-","l","o","c","k",".","y","a","m","l">>, <<"y","a","r","n",".","l","o","c","k">>}

is_excluded(path) ==
    LET p == normalize(path)
    IN  \E i \in 1..Len(p) :
            \/ \E d \in EXCLUDE_DIRS : ComponentAt(p, i, d)
            \/ \E f \in EXCLUDE_FILES : LastComponentAt(p, i, f)

\* Path(p).name: the last component, trailing slashes dropped
RECURSIVE LastSlash(_, _)
LastSlash(t, i) == IF i = 0 \/ t[i] = "/" THEN i ELSE LastSlash(t, i - 1)
path_name(p) ==
    LET t == rstrip_slash(p) IN SubSeq(t, LastSlash(t, Len(t)) + 1, Len(t))

\* Path(p).suffix: from the last dot of the name, unless the dot is first or last
RECURSIVE LastDot(_, _)
LastDot(t, i) == IF i = 0 \/ t[i] = "." THEN i ELSE LastDot(t, i - 1)
path_suffix(p) ==
    LET n == path_name(p)
        d == LastDot(n, Len(n))
    IN  IF 1 < d /\ d < Len(n) THEN SubSeq(n, d, Len(n)) ELSE <<>>

\* str(Path(p).parent), for a path with a parent directory
path_parent(p) ==
    LET t == rstrip_slash(p)
        s == LastSlash(t, Len(t))
    IN  IF s = 0 THEN <<".">> ELSE IF s = 1 THEN <<"/">> ELSE rstrip_slash(SubSeq(t, 1, s - 1))

is_text_file_ignoring_binary_ext(path_str) ==
    LET ext == str_lower(path_suffix(path_str))
    IN  IF ext \in TEXT_EXT THEN TRUE
        ELSE ~\E i \in 1..Len(path_str) :
                 \E d \in {<<"d","i","s","t">>, <<"n","o","d","e","_","m","o","d","u","l","e","s">>} : ComponentAt(path_str, i, d)

is_text_file(path_str) ==
    LET ext == str_lower(path_suffix(path_str))
    IN  IF ext \in TEXT_EXT THEN TRUE
        ELSE IF ext \in BINARY_EXT THEN FALSE
        ELSE ~\E i \in 1..Len(path_str) :
                 \E d \in {<<"d","i","s","t">>, <<"n","o","d","e","_","m","o","d","u","l","e","s">>} : ComponentAt(path_str, i, d)

----------------------------------------------------------------------------
(* Case helpers                                                            *)

\* [-_\s]
IsSep(c) == c \in {"-", "_", " ", "\t", "\n", "\r"}

\* the words of re.split(r"[-_\s]+", slug), each with its first character upper-cased
\* and (lowerRest) the others lower-cased, joined
RECURSIVE PascalFrom(_, _, _, _)
PascalFrom(t, i, atStart, lowerRest) ==
    IF i > Len(t) THEN <<>>
    ELSE IF IsSep(t[i]) THEN PascalFrom(t, i + 1, TRUE, lowerRest)
    ELSE <<IF atStart THEN upper(t[i]) ELSE IF lowerRest THEN lower(t[i]) ELSE t[i]>>
         \o PascalFrom(t, i + 1, FALSE, lowerRest)

to_pascal_keeping_case(s) == PascalFrom(s, 1, TRUE, FALSE)

to_pascal(s) == PascalFrom(s, 1, TRUE, TRUE)

to_camel(s) ==
    LET p == to_pascal(s)
    IN  IF p # <<>> THEN <<lower(p[1])>> \o Tail(p) ELSE p

to_upper_underscore(s) == str_upper(str_replace(s, <<"-">>, <<"_">>))

\* re.fullmatch(r"[a-z0-9-]+", slug)
valid_slug(s) ==
    /\ Len(s) > 0
    /\ \A i \in 1..Len(s) : s[i] \in LowerSet \cup Digits \cup {"-"}

----------------------------------------------------------------------------
(* Token-rewrite engine                                                    *)

rewrite_path(path, s) ==
    LET p0 == str_replace(path, M_legacy, s)
        p1 == str_replace(p0, M_Xxx, to_pascal(s))
        p2 == str_replace(p1, M_XXX, to_upper_underscore(s))
    IN  str_replace(p2, M_xxx, s)

DTO_TEMPLATES_PREFIX == <<"@","n","v","/","s","h","a","r","e","d","/","d","t","o","/","t","e","m","p","l","a","t","e","s","/">>
DTO_FLAT_PREFIX == <<"@","n","v","/","s","h","a","r","e","d","/","d","t","o","/">>
DTO_SUFFIX == <<".","d","t","o">>

\* "@nv/shared/dto/templates/<seg>/<seg>.dto"
dto_template_path(seg) == DTO_TEMPLATES_PREFIX \o seg \o <<"/">> \o seg \o DTO_SUFFIX

\* only the marker spelling of the templated path is flattened
flatten_dto_marker_only(text, s) ==
    str_replace(text, dto_template_path(M_xxx), DTO_FLAT_PREFIX \o s \o DTO_SUFFIX)

\* dto_pattern.sub, then dto_pattern_slug.sub
flatten_dto(text, s) ==
    LET flat == DTO_FLAT_PREFIX \o s \o DTO_SUFFIX
        t1 == str_replace(text, dto_template_path(M_xxx), flat)
    IN  str_replace(t1, dto_template_path(s), flat)

apply_string_rules(text, s) ==
    LET camelId == to_camel(s) \o S_Id
        t1 == re_sub(text, M_xxx \o S_Id, camelId, "any", "notword")
        t2 == re_sub(t1, s \o S_Id, camelId, "any", "notword")
        t3 == str_replace(t2, M_legacy, s)
        t4 == str_replace(str_replace(str_replace(t3, M_Xxx, s), M_XXX, s), M_xxx, s)
    IN  flatten_dto(t4, s)

apply_code_rules(text, s) ==
    LET camelId == to_camel(s) \o S_Id
        t1 == str_replace(text, M_legacy, s)
        t2 == str_replace(t1, M_XXX, to_upper_underscore(s))
        t3 == str_replace(t2, M_Xxx, to_pascal(s))
        t4 == re_sub(t3, M_xxx \o S_Id, camelId, "notword", "notword")
        t5 == re_sub(t4, s \o S_Id, camelId, "notword", "notword")
        t6 == re_sub(t5, M_xxx, s, "notword", "word")
    IN  re_sub(t6, M_xxx, s, "notword", "notword")

Quotes == {"\"", "'", Backquote}

\* the inner while loop over a quoted span opened by q: the position after the span
RECURSIVE QuoteEnd(_, _, _, _)
QuoteEnd(s, j, q, esc) ==
    IF j > Len(s) THEN j
    ELSE IF esc THEN QuoteEnd(s, j + 1, q, FALSE)
    ELSE IF s[j] = "\\" THEN QuoteEnd(s, j + 1, q, TRUE)
    ELSE IF s[j] = q THEN j + 1
    ELSE QuoteEnd(s, j + 1, q, FALSE)

\* the position after a bare span
RECURSIVE BareEnd(_, _)
BareEnd(s, j) == IF j <= Len(s) /\ s[j] \notin Quotes THEN BareEnd(s, j + 1) ELSE j

\* seg of a quoted span after `if new_inner != inner: seg = q + new_inner + q`
requoted(seg, inner, new_inner) ==
    IF new_inner # inner THEN <<seg[1]>> \o new_inner \o <<seg[1]>> ELSE seg

\* new_inner = apply_string_rules(inner, slug)
rules_on_inner(seg, inner, sl) == requoted(seg, inner, apply_string_rules(inner, sl))

\* inner = seg[1:-1]
quoted_span(seg, sl) == rules_on_inner(seg, SubSeq(seg, 2, Len(seg) - 1), sl)

\* "".join(out_parts) of the segmenting loop, from position i on; j is the position
\* after the span that starts at i
RECURSIVE RewriteSpans(_, _, _)
SpanThenRest(s, i, j, sl) ==
    (IF s[i] \in Quotes
     THEN quoted_span(SubSeq(s, i, j - 1), sl)
     ELSE apply_code_rules(SubSeq(s, i, j - 1), sl))
    \o RewriteSpans(s, j, sl)

RewriteSpans(s, i, sl) ==
    IF i > Len(s) THEN <<>>
    ELSE IF s[i] \in Quotes THEN SpanThenRest(s, i, QuoteEnd(s, i + 1, s[i], FALSE), sl)
    ELSE SpanThenRest(s, i, BareEnd(s, i), sl)

SAMPLE_BEFORE == 40
SAMPLE_AFTER == 120

\* index (from 0) of the first difference of zip(s, new_text), else the shorter length
RECURSIVE FirstDiff(_, _, _)
FirstDiff(s, n, k) ==
    IF k >= Len(s) \/ k >= Len(n) THEN (IF Len(s) < Len(n) THEN Len(s) ELSE Len(n))
    ELSE IF s[k + 1] # n[k + 1] THEN k
    ELSE FirstDiff(s, n, k + 1)

\* new_text[start:end] around index k, with the control characters escaped
sample_window(new_text, k) ==
    LET start == IF k - SAMPLE_BEFORE > 0 THEN k - SAMPLE_BEFORE ELSE 0
        end == IF k + SAMPLE_AFTER < Len(new_text) THEN k + SAMPLE_AFTER ELSE Len(new_text)
        w == SubSeq(new_text, start + 1, end)
    IN  str_replace(str_replace(str_replace(w, <<"\n">>, <<"\\">> \o <<"n">>), <<"\r">>, <<"\\">> \o <<"r">>),
                    <<"\t">>, <<"\\">> \o <<"t">>)

content_sample(s, new_text) == sample_window(new_text, FirstDiff(s, new_text, 0))

\* data.decode("utf-8") succeeds
decodes(data) == \A i \in 1..Len(data) : data[i] # BadByte

\* the sample is None (<<>>) or one text (<<sample>>)
None == <<>>

\* the return value once new_text is joined
content_result(data, new_text, dry) ==
    IF new_text # data
    THEN [data |-> new_text, changed |-> TRUE,
          sample |-> IF dry THEN <<content_sample(data, new_text)>> ELSE None]
    ELSE [data |-> data, changed |-> FALSE, sample |-> None]

rewrite_content_bytes(data, file_path, s, dry) ==
    IF ~is_text_file(file_path) THEN [data |-> data, changed |-> FALSE, sample |-> None]
    ELSE IF ~decodes(data) THEN [data |-> data, changed |-> FALSE, sample |-> None]
    ELSE content_result(data, RewriteSpans(data, 1, s), dry)

DEFAULT_DTO_TEMPLATES == <<
    <<"b","a","c","k","e","n","d","/","s","e","r","v","i","c","e","s","/","s","h","a","r","e","d","/","s","r","c","/","d","t","o","/","t","e","m","p","l","a","t","e","s","/","x","x","x",".","d","t","o">>,
    <<"b","a","c","k","e","n","d","/","s","e","r","v","i","c","e","s","/","s","h","a","r","e","d","/","s","r","c","/","d","t","o","/","t","e","m","p","l","a","t","e","s","/","x","x","x",".","d","t","o",".","t","s">> >>

\* names: the entries' file names in archive order
detect_dto_templates(names) ==
    LET norm == [i \in 1..Len(names) |-> normalize(names[i])]
        hit(c) == \E i \in 1..Len(norm) : strip_slash(norm[i]) = strip_slash(c)
        defaults == SelectSeq(DEFAULT_DTO_TEMPLATES, hit)
        suffixed(n) == /\ ~endswith(n, <<"/">>)
                       /\ endswith(n, <<"/","x","x","x",".","d","t","o">>) \/ endswith(n, <<"/","x","x","x",".","d","t","o",".","t","s">>)
    IN  IF defaults # <<>> THEN defaults ELSE SelectSeq(norm, suffixed)

----------------------------------------------------------------------------
(* Archive walker: main()                                                  *)

\* the locals of one loop iteration, r being what rewrite_content_bytes returned
entry_locals(name, new_name, data, r) ==
    [name |-> name, new_name |-> new_name, data |-> data, new_data |-> r.data,
     did_change |-> r.changed, sample |-> r.sample]

rewritten_under(name, new_name, data, s, dry) ==
    entry_locals(name, new_name, data, rewrite_content_bytes(data, new_name, s, dry))

process_entry_keeping_name(name, data, s, dry) ==
    rewritten_under(name, name, data, s, dry)

\* new_name = rewrite_path(name, slug); rewrite_content_bytes(data, new_name, ...)
process_entry(name, data, s, dry) ==
    rewritten_under(name, rewrite_path(name, s), data, s, dry)

\* dest of a template: beside it, named after the slug
dto_dest(src, parent, s) ==
    IF endswith(src, <<".","d","t","o",".","t","s">>)
    THEN parent \o <<"/">> \o s \o <<".","d","t","o",".","t","s">>
    ELSE parent \o <<"/">> \o s \o <<".","d","t","o">>

\* the locals of one iteration of the template clone loop: dest, rewritten
clone_dto(src, src_bytes, s, dry) ==
    rewritten_under(src, dto_dest(src, normalize(path_parent(src)), s), src_bytes, s, dry)

\* zin.read(name): the payload of the last member recorded under that name
HasMember(es, n) == \E i \in 1..Len(es) : es[i].name = n
ReadMember(es, n) ==
    LET i == CHOOSE i \in 1..Len(es) :
                 es[i].name = n /\ \A j \in (i + 1)..Len(es) : es[j].name # n
    IN  es[i].data

NoLocals == [name |-> <<>>, new_name |-> <<>>, data |-> <<>>, new_data |-> <<>>,
             did_change |-> FALSE, sample |-> None]

\* where main() continues once the entry loop is at i and the clone loop at k
AfterLoops(i, k, dtos) ==
    IF i <= Len(entries) THEN "loop" ELSE IF k <= Len(dtos) THEN "dto" ELSE "close"

\* sys.exit(1) before any archive is opened
ExitEarly ==
    /\ pc' = "exited"
    /\ exit_code' = 1
    /\ UNCHANGED <<entries, idx, dto_idx, zin, zout, out, files, changed, skipped,
                   dto_inzip, last, changedSrc>>

\* an exception leaves the `with ZipFile(inzip)` block and reaches the handler
Raise ==
    /\ pc' = "handler"
    /\ zin' = "closed"
    /\ UNCHANGED <<entries, idx, dto_idx, zout, out, files, changed, skipped,
                   dto_inzip, changedSrc, exit_code>>

\* slug validation, the input archive's existence, the output collision check
Validate ==
    /\ pc = "start"
    /\ \E in_exists \in BOOLEAN, out_exists \in BOOLEAN, force \in BOOLEAN :
        IF ~valid_slug(slug) THEN ExitEarly
        ELSE IF ~in_exists THEN ExitEarly
        ELSE IF out_exists /\ ~force /\ ~dry_run THEN ExitEarly
        ELSE /\ pc' = "open"
             /\ UNCHANGED <<entries, idx, dto_idx, zin, zout, out, files, changed,
                            skipped, dto_inzip, last, changedSrc, exit_code>>
    /\ UNCHANGED <<slug, dry_run>>
    /\ UNCHANGED engineVars /\ UNCHANGED casingVars

\* with ZipFile(inzip) as zin; detect_dto_templates; zout = ZipFile(outzip, "w")
OpenArchives ==
    /\ pc = "open"
    /\ \E in_ok \in BOOLEAN, out_ok \in BOOLEAN :
        IF ~in_ok
        THEN /\ pc' = "handler"
             /\ UNCHANGED <<zin, zout, dto_inzip>>
        ELSE /\ dto_inzip' = detect_dto_templates([i \in 1..Len(entries) |-> entries[i].name])
             /\ IF dry_run
                THEN /\ zin' = "open" /\ zout' = "none"
                     /\ pc' = AfterLoops(idx, dto_idx, dto_inzip')
                ELSE IF out_ok
                THEN /\ zin' = "open" /\ zout' = "open"
                     /\ pc' = AfterLoops(idx, dto_idx, dto_inzip')
                ELSE /\ zin' = "closed" /\ zout' = "none"
                     /\ pc' = "handler"
    /\ UNCHANGED <<entries, idx, dto_idx, out, files, changed, skipped, last,
                   changedSrc, exit_code>>
    /\ UNCHANGED <<slug, dry_run>>
    /\ UNCHANGED engineVars /\ UNCHANGED casingVars

\* the entry or template e is written under its new name (or, in a dry run, only
\* reported), unless writing raises; then the counters are updated
WriteOrReport(e, raw_name, write_ok, counts, is_file) ==
    /\ last' = e
    /\ IF ~dry_run /\ ~write_ok THEN Raise
       ELSE /\ out' = IF dry_run THEN out
                      ELSE Append(out, [name |-> e.new_name, data |-> e.new_data,
                                        src |-> raw_name, orig |-> e.data])
            /\ changed' = IF counts THEN changed + 1 ELSE changed
            /\ changedSrc' = IF counts THEN changedSrc \cup {raw_name} ELSE changedSrc
            /\ files' = IF is_file THEN files + 1 ELSE files
            /\ idx' = IF is_file THEN idx + 1 ELSE idx
            /\ dto_idx' = IF is_file THEN dto_idx ELSE dto_idx + 1
            /\ pc' = AfterLoops(idx', dto_idx', dto_inzip)
            /\ UNCHANGED <<entries, zin, zout, skipped, dto_inzip, exit_code>>

\* e is what the iteration computed for the entry called name
ProcessedEntry(e, raw_name, name, write_ok) ==
    WriteOrReport(e, raw_name, write_ok, e.new_name # name \/ e.did_change, TRUE)

\* a retained entry: read, rewritten, written or reported
RetainedEntry(info, name) ==
    \E read_ok \in BOOLEAN, write_ok \in BOOLEAN :
        IF ~read_ok THEN Raise /\ UNCHANGED last
        ELSE ProcessedEntry(process_entry(name, info.data, slug, dry_run), info.name,
                            name, write_ok)

\* a directory entry or an excluded entry
SkippedEntry(name) ==
    /\ skipped' = IF is_excluded(name) THEN skipped + 1 ELSE skipped
    /\ idx' = idx + 1
    /\ pc' = AfterLoops(idx + 1, dto_idx, dto_inzip)
    /\ UNCHANGED <<entries, dto_idx, zin, zout, out, files, changed,
                   dto_inzip, last, changedSrc, exit_code>>

EntryStep(info, name) ==
    IF endswith(name, <<"/">>) \/ is_excluded(name)
    THEN SkippedEntry(name)
    ELSE RetainedEntry(info, name)

\* one iteration of `for info in entries`
LoopEntry ==
    /\ pc = "loop"
    /\ idx <= Len(entries)
    /\ EntryStep(entries[idx], normalize(entries[idx].name))
    /\ UNCHANGED <<slug, dry_run>>
    /\ UNCHANGED engineVars /\ UNCHANGED casingVars

CloneStep(src) ==
    \E read_ok \in BOOLEAN, write_ok \in BOOLEAN :
        IF ~HasMember(entries, src) \/ ~read_ok THEN Raise /\ UNCHANGED last
        ELSE WriteOrReport(clone_dto(src, ReadMember(entries, src), slug, dry_run),
                           src, write_ok, TRUE, FALSE)

\* one iteration of `for src in dto_inzip`
CloneDto ==
    /\ pc = "dto"
    /\ dto_idx <= Len(dto_inzip)
    /\ CloneStep(dto_inzip[dto_idx])
    /\ UNCHANGED <<slug, dry_run>>
    /\ UNCHANGED engineVars /\ UNCHANGED casingVars

\* zout.close(), the end of the with block, the summary
Finish ==
    /\ pc = "close"
    /\ zout' = IF ~dry_run /\ zout = "open" THEN "closed" ELSE zout
    /\ zin' = "closed"
    /\ pc' = "exited"
    /\ exit_code' = 0
    /\ UNCHANGED <<entries, idx, dto_idx, out, files, changed, skipped, dto_inzip,
                   last, changedSrc>>
    /\ UNCHANGED <<slug, dry_run>>
    /\ UNCHANGED engineVars /\ UNCHANGED casingVars

\* except Exception: print the error, sys.exit(1)
Handler ==
    /\ pc = "handler"
    /\ pc' = "exited"
    /\ exit_code' = 1
    /\ UNCHANGED <<entries, idx, dto_idx, zin, zout, out, files, changed, skipped,
                   dto_inzip, last, changedSrc>>
    /\ UNCHANGED <<slug, dry_run>>
    /\ UNCHANGED engineVars /\ UNCHANGED casingVars

----------------------------------------------------------------------------
(* Inputs of the walker                                                    *)

MaxEntries == 2

S_order == <<"o","r","d","e","r">>
S_user_profile == <<"u","s","e","r","-","p","r","o","f","i","l","e">>

MainSlugs == {S_order, <<"a","-","b">>, <<"B","a","d">>}

EntryPool == {
    [name |-> <<"x","x","x","/","a",".","t","s">>,                  data |-> <<"X","X","X"," ","\"","X","x","x","\"">>],
    [name |-> <<"o","r","d","e","r","/","a",".","t","s">>,                data |-> <<"a">>],
    [name |-> <<"a","-","b","/","a",".","t","s">>,                  data |-> <<"O","R","D","E","R"," ","\"","o","r","d","e","r","\"">>],
    [name |-> <<"n","o","d","e","_","m","o","d","u","l","e","s","/","x","x","x","/","i","n","d","e","x",".","j","s">>, data |-> <<"x","x","x">>],
    [name |-> <<"d","i","s","t","/","x","x","x",".","d","t","o">>,              data |-> <<"X","x","x">>],
    [name |-> <<"x","x","x",".","p","n","g">>,                   data |-> <<"x","x","x">>],
    [name |-> <<"b",".","t","s">>,                      data |-> <<"x","x","x">> \o <<BadByte>>],
    [name |-> <<"t","\\","x","x","x",".","d","t","o",".","t","s">>,              data |-> <<"x","x","x","I","d">>],
    [name |-> <<"t","/","x","x","x",".","d","t","o",".","t","s">>,              data |-> <<"'","x","x","x","I","d","'">>],
    [name |-> <<"b","a","c","k","e","n","d","/","s","e","r","v","i","c","e","s","/","s","h","a","r","e","d","/","s","r","c","/","d","t","o","/","t","e","m","p","l","a","t","e","s","/","x","x","x",".","d","t","o">>, data |-> <<"X","x","x">>],
    [name |-> <<"x","x","x","/">>,                      data |-> <<>>],
    [name |-> <<".","g","i","t","/">>,                     data |-> <<>>] }

\* the archives of at most n members
RECURSIVE Archives(_)
Archives(n) ==
    IF n = 0 THEN {<<>>}
    ELSE Archives(n - 1) \cup {Append(a, e) : a \in Archives(n - 1), e \in EntryPool}

EngineIdle ==
    /\ ctx = "none" /\ buf = <<>> /\ res = <<>> /\ prev = <<>> /\ pass = 0

CasingIdle ==
    /\ cpc = "none" /\ pascal = <<>> /\ camel = <<>> /\ upperForm = <<>>
    /\ camelOfPascal = <<>>

MainIdle ==
    /\ entries = <<>> /\ pc = "none" /\ idx = 1 /\ dto_idx = 1
    /\ zin = "none" /\ zout = "none" /\ out = <<>>
    /\ files = 0 /\ changed = 0 /\ skipped = 0
    /\ dto_inzip = <<>> /\ last = NoLocals /\ changedSrc = {} /\ exit_code = -1

Init ==
    /\ slug \in MainSlugs
    /\ dry_run \in BOOLEAN
    /\ entries \in Archives(MaxEntries)
    /\ pc = "start" /\ idx = 1 /\ dto_idx = 1
    /\ zin = "none" /\ zout = "none" /\ out = <<>>
    /\ files = 0 /\ changed = 0 /\ skipped = 0
    /\ dto_inzip = <<>> /\ last = NoLocals /\ changedSrc = {} /\ exit_code = -1
    /\ EngineIdle /\ CasingIdle

Next == Validate \/ OpenArchives \/ LoopEntry \/ CloneDto \/ Finish \/ Handler

Spec == Init /\ [][Next]_vars

----------------------------------------------------------------------------
(* Engine runs: the path rewrite or the content rewrite applied to one     *)
(* text, then again to its own output                                      *)

MaxTokens == 3
MaxSlugLen == 3
MaxPasses == 2

\* the path under which a content is rewritten: a text file
TextPath == <<"f",".","t","s">>

Tokens == {M_xxx, M_Xxx, M_XXX, S_Id, <<"a">>, <<"-">>, <<"\"">>, <<"'">>, <<"\\">>}

\* the concatenations of at most n tokens
RECURSIVE TokenTexts(_)
TokenTexts(n) ==
    IF n = 0 THEN {<<>>}
    ELSE TokenTexts(n - 1) \cup {t \o k : t \in TokenTexts(n - 1), k \in Tokens}

SlugAlphabet == {"a", "x", "1", "-"}

\* the texts over the slug alphabet of length 1..n: all match [a-z0-9-]+
RECURSIVE SlugsUpTo(_)
SlugsUpTo(n) ==
    IF n = 0 THEN {}
    ELSE SlugsUpTo(n - 1)
         \cup {<<c>> : c \in SlugAlphabet}
         \cup {Append(s, c) : s \in SlugsUpTo(n - 1), c \in SlugAlphabet}

EngineSlugs == {S_order, S_user_profile, <<"a","x","x","x">>, <<"x","x">>}

DTO_LITERAL == dto_template_path(M_xxx)
DtoPre == {<<>>, <<".",".","/">>}
DtoPost == {<<>>, <<".","t","s">>}
DtoBuffer(q, pre, post) == <<q>> \o pre \o DTO_LITERAL \o post \o <<q>>
DtoBuffers == {DtoBuffer(q, pre, post) : q \in Quotes, pre \in DtoPre, post \in DtoPost}

IdentChars == {<<"a">>, <<"1">>, <<"_">>}
ProtectedBare == {w \o m : w \in IdentChars, m \in {M_xxx, M_xxx \o S_Id}}
ProtectedBuffers == ProtectedBare \cup {<<q>> \o b \o <<q>> : q \in Quotes, b \in ProtectedBare}

QuotedMarkers == {<<q>> \o m \o <<q>> : q \in Quotes, m \in {M_xxx, M_Xxx, M_XXX}}

PickedBuffers ==
    DtoBuffers \cup ProtectedBuffers \cup QuotedMarkers \cup
    { M_xxx, M_Xxx, M_XXX, M_legacy, <<"x","x","x","/","x","x","x","I","d",".","d","t","o",".","t","s">>, <<"x","x","x","I","d">>, <<"c","o","n","s","t"," ","x","x","x","I","d"," ","="," ","1",";">>,
      <<"\"","X","x","x","I","d","\"">>, <<"\"","t","_","e","n","t","i","t","y","_","c","r","u","d","\"">>, <<"x","x","x","x">>, <<"\"","x","x","x">>, <<"\"","x","x","x","x">>, <<"\"","a","\\","\"","x","x","x","\"">> }

ApplyPath ==
    /\ ctx = "path"
    /\ pass < MaxPasses
    /\ prev' = res
    /\ res' = rewrite_path(res, slug)
    /\ pass' = pass + 1
    /\ UNCHANGED <<slug, dry_run, ctx, buf>>
    /\ UNCHANGED mainVars /\ UNCHANGED casingVars

ApplyContent ==
    /\ ctx = "content"
    /\ pass < MaxPasses
    /\ prev' = res
    /\ res' = rewrite_content_bytes(res, TextPath, slug, dry_run).data
    /\ pass' = pass + 1
    /\ UNCHANGED <<slug, dry_run, ctx, buf>>
    /\ UNCHANGED mainVars /\ UNCHANGED casingVars

EngineInit ==
    /\ MainIdle /\ CasingIdle
    /\ dry_run = FALSE
    /\ ctx \in {"path", "content"}
    /\ \/ slug \in EngineSlugs /\ buf \in TokenTexts(MaxTokens)
       \/ slug \in EngineSlugs \cup SlugsUpTo(MaxSlugLen) /\ buf \in PickedBuffers
    /\ res = buf /\ prev = buf /\ pass = 0

EngineNext == ApplyPath \/ ApplyContent

EngineSpec == EngineInit /\ [][EngineNext]_vars

----------------------------------------------------------------------------
(* Casing runs: the derived forms of one slug, as main() prints them, and  *)
(* to_camel applied to the Pascal form                                     *)

ComputePascal ==
    /\ cpc = "slug"
    /\ pascal' = to_pascal(slug)
    /\ cpc' = "pascal"
    /\ UNCHANGED <<slug, dry_run, camel, upperForm, camelOfPascal>>
    /\ UNCHANGED mainVars /\ UNCHANGED engineVars

ComputeCamel ==
    /\ cpc = "pascal"
    /\ camel' = to_camel(slug)
    /\ cpc' = "camel"
    /\ UNCHANGED <<slug, dry_run, pascal, upperForm, camelOfPascal>>
    /\ UNCHANGED mainVars /\ UNCHANGED engineVars

ComputeUpper ==
    /\ cpc = "camel"
    /\ upperForm' = to_upper_underscore(slug)
    /\ cpc' = "upper"
    /\ UNCHANGED <<slug, dry_run, pascal, camel, camelOfPascal>>
    /\ UNCHANGED mainVars /\ UNCHANGED engineVars

ComposeCamelPascal ==
    /\ cpc = "upper"
    /\ camelOfPascal' = to_camel(pascal)
    /\ cpc' = "composed"
    /\ UNCHANGED <<slug, dry_run, pascal, camel, upperForm>>
    /\ UNCHANGED mainVars /\ UNCHANGED engineVars

CasingInit ==
    /\ MainIdle /\ EngineIdle
    /\ dry_run = FALSE
    /\ slug \in EngineSlugs \cup SlugsUpTo(MaxSlugLen)
    /\ cpc = "slug" /\ pascal = <<>> /\ camel = <<>> /\ upperForm = <<>>
    /\ camelOfPascal = <<>>

CasingNext == ComputePascal \/ ComputeCamel \/ ComputeUpper \/ ComposeCamelPascal

CasingSpec == CasingInit /\ [][CasingNext]_vars

----------------------------------------------------------------------------
(* Claims                                                                  *)

\* C1 (EngineSpec): for a slug that is not itself a marker spelling, applying the
\* path rewrite or the content rewrite a second time to the output of the first
\* application changes nothing.
C1_RewriteIdempotent ==
    (pass >= 2 /\ slug \notin Markers) => res = prev

\* C2 (EngineSpec): in a content, a bare XXX becomes the UPPER_SNAKE form and a bare
\* Xxx the PascalCase form of the slug, while XXX, Xxx and xxx inside a span quoted
\* by ", ' or a backquote all become the dashed slug, for every slug.
C2_ContextDependentCasing ==
    (ctx = "content" /\ pass = 1) =>
        /\ buf = M_XXX => res = to_upper_underscore(slug)
        /\ buf = M_Xxx => res = to_pascal(slug)
        /\ \A q \in Quotes : \A m \in {M_XXX, M_Xxx, M_xxx} :
               buf = <<q>> \o m \o <<q>> => res = <<q>> \o slug \o <<q>>

\* C3 (EngineSpec): the path rewrite turns the lowercase marker followed by "Id"
\* into camelCase(slug) + "Id": "xxx/xxxId.dto.ts" with slug "user-profile" becomes
\* "user-profile/userProfileId.dto.ts".
C3_PathIdSuffix ==
    (ctx = "path" /\ pass = 1) =>
        /\ (buf = <<"x","x","x","/","x","x","x","I","d",".","d","t","o",".","t","s">> /\ slug = S_user_profile)
               => res = <<"u","s","e","r","-","p","r","o","f","i","l","e","/","u","s","e","r","P","r","o","f","i","l","e","I","d",".","d","t","o",".","t","s">>
        /\ buf = <<"x","x","x","I","d">> => res = to_camel(slug) \o S_Id

\* C4 (Spec): no entry whose normalized path is excluded is written to the output
\* archive, under any name or as a cloned template, nor counted as changed.
C4_ExcludedNeverOutput ==
    /\ \A k \in 1..Len(out) : ~is_excluded(out[k].src)
    /\ \A n \in changedSrc : ~is_excluded(n)

\* the extension of the path is one of the binary extensions
BinaryByExtension(p) == str_lower(path_suffix(p)) \in BINARY_EXT

\* rewrite_content_bytes returned the payload untouched, unchanged, with no sample
PassedThrough(e) == e.new_data = e.data /\ ~e.did_change /\ e.sample = None

\* C5 (Spec): an entry that is binary by extension, or whose bytes do not decode as
\* UTF-8, comes back from the content rewrite byte for byte, with changed = false and
\* no sample, and is written to the output archive with the payload it was read with.
C5_BinaryPassThrough ==
    /\ (BinaryByExtension(last.new_name) \/ ~decodes(last.data)) => PassedThrough(last)
    /\ \A k \in 1..Len(out) :
           (BinaryByExtension(out[k].name) \/ ~decodes(out[k].orig))
               => out[k].data = out[k].orig

\* C5 witness: the last entry was passed through, and the output archive holds a
\* binary entry and an undecodable text entry, both with a marker in the payload.
C5_Witness ==
    /\ last.name # <<>> /\ ~decodes(last.data) /\ PassedThrough(last)
    /\ \E k \in 1..Len(out) :
           BinaryByExtension(out[k].name) /\ contains(out[k].orig, M_xxx)
    /\ \E k \in 1..Len(out) :
           /\ is_text_file(out[k].name) /\ ~decodes(out[k].orig)
           /\ contains(out[k].orig, M_xxx)

\* C6 (EngineSpec): a quoted literal containing
\* "@nv/shared/dto/templates/xxx/xxx.dto" comes out with that path collapsed to
\* "@nv/shared/dto/<slug>.dto", for every accepted slug.
C6_DtoFlattening ==
    (ctx = "content" /\ pass = 1 /\ valid_slug(slug)) =>
        \A q \in Quotes : \A pre \in DtoPre : \A post \in DtoPost :
            buf = DtoBuffer(q, pre, post)
                => res = <<q>> \o pre \o DTO_FLAT_PREFIX \o slug \o DTO_SUFFIX \o post \o <<q>>

\* C6 witness: the literal, alone in double quotes, rewritten for the slug "order".
C6_Witness ==
    /\ ctx = "content" /\ pass = 1 /\ slug = S_order
    /\ buf = <<"\"","@","n","v","/","s","h","a","r","e","d","/","d","t","o","/","t","e","m","p","l","a","t","e","s","/","x","x","x","/","x","x","x",".","d","t","o","\"">>
    /\ res = <<"\"","@","n","v","/","s","h","a","r","e","d","/","d","t","o","/","o","r","d","e","r",".","d","t","o","\"">>

\* the number of words of re.split(r"[-_\s]+", s)
RECURSIVE WordsFrom(_, _, _)
WordsFrom(t, i, atStart) ==
    IF i > Len(t) THEN 0
    ELSE IF IsSep(t[i]) THEN WordsFrom(t, i + 1, TRUE)
    ELSE (IF atStart THEN 1 ELSE 0) + WordsFrom(t, i + 1, FALSE)

\* C7 as stated (CasingSpec): toCamel(toPascal(s)) has a lowercase first character
\* and its remainder equals the remainder of toPascal(s).
C7_Original ==
    (cpc = "composed" /\ valid_slug(slug) /\ pascal # <<>>) =>
        /\ camelOfPascal # <<>>
        /\ camelOfPascal[1] \in LowerSet \cup Digits
        /\ Tail(camelOfPascal) = Tail(pascal)

\* C7 as amended (CasingSpec): toCamel(toPascal(s)) is toPascal(s) with every letter
\* lowercased, so its first character is not uppercase and its remainder is the
\* lowercased remainder of toPascal(s); the remainder equals that of toPascal(s)
\* itself when the slug has a single word.
C7_CasingComposition ==
    (cpc = "composed" /\ valid_slug(slug)) =>
        /\ camelOfPascal = str_lower(pascal)
        /\ Len(camelOfPascal) = Len(pascal)
        /\ pascal # <<>> =>
               /\ pascal[1] = upper(camelOfPascal[1])
               /\ camelOfPascal[1] \notin UpperSet
               /\ Tail(camelOfPascal) = str_lower(Tail(pascal))
               /\ WordsFrom(slug, 1, TRUE) = 1 => Tail(camelOfPascal) = Tail(pascal)

\* C7 witness: the forms of "user-profile" are composed, and differ in the remainder.
C7_Witness ==
    /\ cpc = "composed" /\ slug = S_user_profile
    /\ pascal = <<"U","s","e","r","P","r","o","f","i","l","e">> /\ camelOfPascal = <<"u","s","e","r","p","r","o","f","i","l","e">>

\* C8 (Spec): once the program has exited the output archive handle is not left
\* open, whichever way the run ended; a dry run never opens one.
C8_OutputHandleReleased ==
    /\ pc = "exited" => zout # "open"
    /\ dry_run => zout = "none"

\* the retained entries: files that are not excluded
Retained ==
    {i \in 1..Len(entries) :
        /\ ~endswith(normalize(entries[i].name), <<"/">>)
        /\ ~is_excluded(normalize(entries[i].name))}

\* the rewrite result of entry i, from its path, its payload and the slug alone
ExpectedName(i) == rewrite_path(normalize(entries[i].name), slug)
ExpectedData(i) ==
    rewrite_content_bytes(entries[i].data, ExpectedName(i), slug, FALSE).data

\* the payload the archive o holds for path p: that of the last record written under p
HasRecord(o, p) == \E k \in 1..Len(o) : o[k].name = p
Carried(o, p) ==
    LET k == CHOOSE k \in 1..Len(o) :
                 o[k].name = p /\ \A j \in (k + 1)..Len(o) : o[j].name # p
    IN  o[k].data

WroteAll == pc = "exited" /\ exit_code = 0 /\ ~dry_run

\* C9 as stated (Spec): whatever the order of the entries, after a complete write
\* run every retained entry's output path carries that entry's rewritten payload,
\* also when two input paths are rewritten to the same output path.
C9_Original ==
    WroteAll =>
        \A i \in Retained :
            HasRecord(out, ExpectedName(i)) /\ Carried(out, ExpectedName(i)) = ExpectedData(i)

\* C9 as amended (Spec): whatever the order of the entries, a complete write run
\* writes the same set of (output path, payload) records for the retained entries,
\* each a function of that entry's path, payload and the slug; an output path
\* carries an entry's rewritten payload provided no write to that path has another
\* payload.
C9_OrderIndependentRecords ==
    WroteAll =>
        /\ {[name |-> out[k].name, data |-> out[k].data] : k \in 1..files}
               = {[name |-> ExpectedName(i), data |-> ExpectedData(i)] : i \in Retained}
        /\ \A i \in Retained :
               (\A k \in 1..Len(out) :
                    out[k].name = ExpectedName(i) => out[k].data = ExpectedData(i))
                   => /\ HasRecord(out, ExpectedName(i))
                      /\ Carried(out, ExpectedName(i)) = ExpectedData(i)

\* C9 witness: a complete write run over two retained entries that were renamed and
\* written under two different output paths.
C9_Witness ==
    /\ WroteAll /\ files = 2 /\ Len(out) = 2
    /\ out[1].name # out[2].name
    /\ out[1].name # normalize(out[1].src)

\* C10 (EngineSpec): in bare and in quoted spans, a lowercase marker (alone or
\* followed by "Id") that is immediately preceded by a letter, a digit or an
\* underscore is left unchanged by the content rewrite.
C10_BoundaryProtected ==
    (ctx = "content" /\ pass = 1 /\ buf \in ProtectedBuffers) => res = buf

\* TRUE iff the quoted span opened by q just before position j has no unescaped
\* closing q up to the end of s
RECURSIVE Unclosed(_, _, _, _)
Unclosed(s, j, q, esc) ==
    IF j > Len(s) THEN TRUE
    ELSE IF esc THEN Unclosed(s, j + 1, q, FALSE)
    ELSE IF s[j] = "\\" THEN Unclosed(s, j + 1, q, TRUE)
    ELSE IF s[j] = q THEN FALSE
    ELSE Unclosed(s, j + 1, q, FALSE)

\* s is a bare run (possibly empty) followed by a quoted span, opened at position p,
\* that is still open at the end of s
EndsInOpenQuote(s, p) == p <= Len(s) /\ Unclosed(s, p + 1, s[p], FALSE)

\* the reassembly that changes nothing but the markers: code rules on the bare run,
\* the opening quote as it was, string rules on every character after it
MarkersOnly(s, p, sl) ==
    apply_code_rules(SubSeq(s, 1, p - 1), sl) \o <<s[p]>>
        \o apply_string_rules(SubSeq(s, p + 1, Len(s)), sl)

\* C11 (EngineSpec): when the buffer ends inside a quoted span that has no closing
\* quote, one content rewrite gives the bare run under the code rules, then the
\* opening quote, then the string rules applied to every character after the opening
\* quote up to the end of the buffer: the last character is not dropped and no quote
\* is appended.
C11_UnterminatedQuoteFaithful ==
    (ctx = "content" /\ pass = 1 /\ EndsInOpenQuote(buf, BareEnd(buf, 1))) =>
        res = MarkersOnly(buf, BareEnd(buf, 1), slug)

====
